---- MODULE Spec2Model ----
(***************************************************************************)
(* Model of tools/deploy-test-flow.py: deploy_flow, get_flow_status and    *)
(* the __main__ orchestration, run against a remote Node-RED service whose *)
(* flow document an external writer may replace at any moment.             *)
(***************************************************************************)
EXTENDS Integers, Sequences, FiniteSets

VARIABLES
    pc,          \* position of the script's single control flow
    file,        \* test-flow.json on disk
    remote,      \* the JSON document GET /flows currently serves
    writes,      \* external writes made so far
    nodes,       \* deploy_flow: nodes
    revision,    \* deploy_flow: revision
    flow_data,   \* deploy_flow: flow_data (the POST payload)
    resp_get,    \* deploy_flow: response of requests.get
    resp_post,   \* deploy_flow: response of requests.post
    resp_status, \* get_flow_status: response of requests.get
    trace,       \* every observable event so far: requests, prints, sleeps
    deployRet,   \* how deploy_flow ended: "none", "True", "False", "raised"
    statusRet    \* how get_flow_status ended: "none", "True", "False", "raised"

vars == <<pc, file, remote, writes, nodes, revision, flow_data, resp_get,
          resp_post, resp_status, trace, deployRet, statusRet>>

-----------------------------------------------------------------------------
(* Bounds *)

MaxFlowLen == 2     \* longest flows list served by the remote
MaxFileLen == 2     \* longest descriptor sequence in the flow file
MaxWrites == 1      \* external writes in one run

-----------------------------------------------------------------------------
(* JSON values and Python dictionaries *)

JNull == [t |-> "null", v |-> ""]

JStr(s) == [t |-> "str", v |-> s]

EmptyDict == [k \in {} |-> JNull]

\* dict.get(key, default)
DictGet(d, key, default) == IF key \in DOMAIN d THEN d[key] ELSE default

\* "revision is not None" in place of the truth value
Truthy_NotNone(x) == x.t # "null"

\* Python truth value of a JSON null or string
Truthy(x) == x.t = "str" /\ x.v # ""

\* str(n) for n >= 0
Digit(d) ==
    CASE d = 0 -> "0" [] d = 1 -> "1" [] d = 2 -> "2" [] d = 3 -> "3"
      [] d = 4 -> "4" [] d = 5 -> "5" [] d = 6 -> "6" [] d = 7 -> "7"
      [] d = 8 -> "8" [] d = 9 -> "9"

RECURSIVE IntStr(_)
IntStr(n) == IF n < 10 THEN Digit(n) ELSE IntStr(n \div 10) \o Digit(n % 10)

-----------------------------------------------------------------------------
(* The environment's value sets *)

SeqsUpTo(S, n) == UNION {[1..k -> S] : k \in 0..n}

\* node descriptors the remote may serve
Descriptors ==
    { [type |-> "tab", label |-> "Main"],
      [type |-> "tab"],
      [type |-> "inject", name |-> "trigger1"],
      [name |-> "orphan"],
      [type |-> "debug"] }

\* node descriptors the flow file may hold
FileDescriptors ==
    { [id |-> "n1", type |-> "inject", name |-> "trigger1"],
      [id |-> "n2", type |-> "debug"] }

\* flow sets another client of the remote service may deploy
WriterFlows ==
    { <<[type |-> "tab", label |-> "Main"], [type |-> "inject", name |-> "trigger1"]>> }

RevValues == {JNull, JStr(""), JStr("abc"), JStr("xyz")}

\* the documents with an optional rev and an optional flows list out of flowLists
DocsOver(flowLists) ==
    {[rev |-> r, flows |-> f] : r \in RevValues, f \in flowLists}
    \cup {[rev |-> r] : r \in RevValues}
    \cup {[flows |-> f] : f \in flowLists}
    \cup {EmptyDict}

RemoteDocs == DocsOver(SeqsUpTo(Descriptors, MaxFlowLen))

FileStates ==
    {[k |-> "missing"], [k |-> "malformed"]}
    \cup {[k |-> "json", v |-> f] : f \in SeqsUpTo(FileDescriptors, MaxFileLen)}

Statuses == {200, 404, 409, 500}

NoResponse == [k |-> "none"]

NetErr == [k |-> "neterr"]

\* what requests.get may produce while the remote serves doc: no response at
\* all, or any status with a body that is the document or is not JSON
GetResponses(doc) ==
    {NetErr}
    \cup {[k |-> "http", status |-> s, parsable |-> p,
           data |-> IF p THEN doc ELSE EmptyDict] : s \in Statuses, p \in BOOLEAN}

\* what requests.post may produce
PostResponses ==
    {NetErr} \cup {[k |-> "http", status |-> s, text |-> "body"] : s \in Statuses}

-----------------------------------------------------------------------------
(* Events *)

PrintLine(line) == [e |-> "print", line |-> line]

GetEvent(by) == [e |-> "GET", by |-> by]

PostEvent(body, doc) ==
    [e |-> "POST", by |-> "deploy_flow", body |-> body,
     at_rev |-> DictGet(doc, "rev", JNull), at_has_rev |-> "rev" \in DOMAIN doc]

SleepSeconds == 5

SleepEvent == [e |-> "sleep", secs |-> SleepSeconds]

-----------------------------------------------------------------------------

\* the script is started; the remote and the file are as their owners left them
Start(files, docs) ==
    /\ pc = "main_start"
    /\ file \in files
    /\ remote \in docs
    /\ writes = 0
    /\ nodes = <<>>
    /\ revision = JNull
    /\ flow_data = EmptyDict
    /\ resp_get = NoResponse
    /\ resp_post = NoResponse
    /\ resp_status = NoResponse
    /\ trace = <<>>
    /\ deployRet = "none"
    /\ statusRet = "none"

\* every flow file, against a remote serving one of a few flow sets
Init == Start(FileStates, DocsOver(WriterFlows \cup {<<>>}))

\* every remote document, with a missing and a well-formed flow file
InitStatus ==
    Start({[k |-> "missing"],
           [k |-> "json", v |-> <<[id |-> "n1", type |-> "inject", name |-> "trigger1"]>>]},
          RemoteDocs)

\* __main__: the start banner, then the call of deploy_flow
MainStart ==
    /\ pc = "main_start"
    /\ trace' = Append(trace, PrintLine("Deploying test flow to Node-RED..."))
    /\ pc' = "deploy_open"
    /\ UNCHANGED <<file, remote, writes, nodes, revision, flow_data, resp_get,
                   resp_post, resp_status, deployRet, statusRet>>

\* json.load(f) of test-flow.json
CanLoad(f) == f.k = "json"

\* deploy_flow, lines 9-10: open and parse the flow file, outside the try block
DeployReadFile ==
    /\ pc = "deploy_open"
    /\ IF CanLoad(file)
       THEN /\ nodes' = file.v
            /\ pc' = "deploy_get"
            /\ UNCHANGED deployRet
       ELSE \* FileNotFoundError / JSONDecodeError leaves deploy_flow and __main__
            /\ deployRet' = "raised"
            /\ pc' = "crashed"
            /\ UNCHANGED nodes
    /\ UNCHANGED <<file, remote, writes, revision, flow_data, resp_get,
                   resp_post, resp_status, trace, statusRet>>

\* response.status_code == 200, line 19
DeployGetOk(r) == r.status = 200

\* the body's rev taken whatever the status
RevisionOf_AnyStatus(r) == DictGet(r.data, "rev", JNull)

\* revision after the GET: None unless the status is 200, then body.get('rev')
RevisionOf(r) ==
    IF DeployGetOk(r) THEN DictGet(r.data, "rev", JNull) ELSE JNull

\* the payload without the revision
BuildPayload_NoRev(ns, rv) == [flows |-> ns]

\* flow_data = {"flows": nodes}, plus 'rev' when revision is truthy
BuildPayload(ns, rv) ==
    IF Truthy(rv) THEN [flows |-> ns, rev |-> rv] ELSE [flows |-> ns]

\* whether requests.get(...), followed by response.json() on a 200, raises
DeployGetRaises(r) == r.k = "neterr" \/ (DeployGetOk(r) /\ ~r.parsable)

\* any status below 500 taken for success
DeployPostOk_Not5xx(r) == r.status < 500

\* the status not looked at
DeployPostOk_Any(r) == TRUE

\* response.status_code == 200, line 35
DeployPostOk(r) == r.status = 200

\* any status below 500 taken for success
StatusGetOk_Not5xx(r) == r.status < 500

\* response.status_code == 200, line 51
StatusGetOk(r) == r.status = 200

\* whether requests.get(...), followed by response.json() on a 200, raises
StatusGetRaises(r) == r.k = "neterr" \/ (StatusGetOk(r) /\ ~r.parsable)

\* the result of deploy_flow not looked at
DeploySucceeded_Always == TRUE

\* if deploy_flow(), line 70
DeploySucceeded == deployRet = "True"

ExcMessage(r) == IF r.k = "neterr" THEN "ConnectionError" ELSE "JSONDecodeError"

\* no except clause: the exception leaves deploy_flow and __main__
DeployExcept_Reraise(events, msg) ==
    /\ trace' = events
    /\ deployRet' = "raised"
    /\ pc' = "crashed"

\* the except clause of deploy_flow
DeployExcept(events, msg) ==
    /\ trace' = events \o <<PrintLine("Error deploying flow: " \o msg)>>
    /\ deployRet' = "False"
    /\ pc' = "main_if"

\* deploy_flow, lines 15-29: fetch the revision and build the payload
DeployGet ==
    /\ pc = "deploy_get"
    /\ \E r \in GetResponses(remote) :
        /\ resp_get' = r
        /\ IF DeployGetRaises(r)
           THEN /\ DeployExcept(Append(trace, GetEvent("deploy_flow")), ExcMessage(r))
                /\ UNCHANGED <<revision, flow_data>>
           ELSE /\ revision' = RevisionOf(r)
                /\ flow_data' = BuildPayload(nodes, RevisionOf(r))
                /\ trace' = Append(trace, GetEvent("deploy_flow"))
                /\ pc' = "deploy_post"
                /\ UNCHANGED deployRet
    /\ UNCHANGED <<file, remote, writes, nodes, resp_post, resp_status, statusRet>>

\* deploy_flow, lines 31-45: post the payload and turn the outcome into a boolean
DeployPost ==
    /\ pc = "deploy_post"
    /\ \E r \in PostResponses :
        LET sent == Append(trace, PostEvent(flow_data, remote)) IN
        /\ resp_post' = r
        /\ IF r.k = "neterr"
           THEN DeployExcept(sent, ExcMessage(r))
           ELSE IF DeployPostOk(r)
           THEN /\ trace' = Append(sent, PrintLine("Flow deployed successfully!"))
                /\ deployRet' = "True"
                /\ pc' = "main_if"
           ELSE /\ trace' = sent \o
                       <<PrintLine("Failed to deploy flow: " \o IntStr(r.status)),
                         PrintLine(r.text)>>
                /\ deployRet' = "False"
                /\ pc' = "main_if"
    /\ UNCHANGED <<file, remote, writes, nodes, revision, flow_data, resp_get,
                   resp_status, statusRet>>

\* __main__, lines 70-71: deploy_flow returned True
MainWait ==
    /\ pc = "main_if"
    /\ DeploySucceeded
    /\ trace' = Append(trace, PrintLine("Waiting for flow to initialize..."))
    /\ pc' = "sleep"
    /\ UNCHANGED <<file, remote, writes, nodes, revision, flow_data, resp_get,
                   resp_post, resp_status, deployRet, statusRet>>

\* __main__, lines 78-79: deploy_flow returned False
MainFailed ==
    /\ pc = "main_if"
    /\ ~DeploySucceeded
    /\ trace' = Append(trace, PrintLine("Failed to deploy flow."))
    /\ pc' = "done"
    /\ UNCHANGED <<file, remote, writes, nodes, revision, flow_data, resp_get,
                   resp_post, resp_status, deployRet, statusRet>>

\* __main__, lines 72-73: the fixed delay
MainSleep ==
    /\ pc = "sleep"
    /\ trace' = trace \o <<SleepEvent, PrintLine("Checking flow status...")>>
    /\ pc' = "status"
    /\ UNCHANGED <<file, remote, writes, nodes, revision, flow_data, resp_get,
                   resp_post, resp_status, deployRet, statusRet>>

\* get_flow_status, lines 56-59: what one descriptor prints, or the KeyError
NodeLine(node) ==
    IF "type" \in DOMAIN node /\ node["type"] = "tab"
    THEN [raised |-> FALSE,
          lines |-> <<"Flow tab: " \o DictGet(node, "label", "Unnamed")>>]
    ELSE IF "name" \in DOMAIN node
    THEN IF "type" \in DOMAIN node
         THEN [raised |-> FALSE,
               lines |-> <<"Node: " \o node["name"] \o " (Type: "
                              \o node["type"] \o ")">>]
         ELSE [raised |-> TRUE, lines |-> <<>>]
    ELSE [raised |-> FALSE, lines |-> <<>>]

\* get_flow_status, lines 55-59: the loop, cut short by the first KeyError
RECURSIVE PrintNodes(_)
PrintNodes(flows) ==
    IF Len(flows) = 0
    THEN [raised |-> FALSE, lines |-> <<>>]
    ELSE LET h == NodeLine(Head(flows)) IN
         IF h.raised
         THEN h
         ELSE LET t == PrintNodes(Tail(flows)) IN
              [raised |-> t.raised, lines |-> h.lines \o t.lines]

ToPrints(lines) == [i \in 1..Len(lines) |-> PrintLine(lines[i])]

\* get_flow_status, lines 47-66
GetFlowStatus ==
    /\ pc = "status"
    /\ \E r \in GetResponses(remote) :
        LET asked == Append(trace, GetEvent("get_flow_status")) IN
        /\ resp_status' = r
        /\ IF StatusGetRaises(r)
           THEN /\ trace' = Append(asked,
                        PrintLine("Error getting flow status: " \o ExcMessage(r)))
                /\ statusRet' = "False"
           ELSE IF StatusGetOk(r)
           THEN LET flows == DictGet(r.data, "flows", <<>>)
                    out == PrintNodes(flows)
                    count == PrintLine("Number of nodes: " \o IntStr(Len(flows)))
                IN  IF out.raised
                    THEN /\ trace' = asked \o <<count>> \o ToPrints(out.lines) \o
                                <<PrintLine("Error getting flow status: 'type'")>>
                         /\ statusRet' = "False"
                    ELSE /\ trace' = asked \o <<count>> \o ToPrints(out.lines)
                         /\ statusRet' = "True"
           ELSE /\ trace' = Append(asked,
                        PrintLine("Failed to get flows: " \o IntStr(r.status)))
                /\ statusRet' = "False"
    /\ pc' = "main_banner"
    /\ UNCHANGED <<file, remote, writes, nodes, revision, flow_data, resp_get,
                   resp_post, deployRet>>

CompletionBanner ==
    << PrintLine("\nFlow deployed successfully! You can now view the results in Node-RED's debug panel."),
       PrintLine("Access Node-RED at: http://localhost:1880"),
       PrintLine("Make sure to click the 'Deploy' button in the Node-RED UI to activate the flow.") >>

\* __main__, lines 75-77: the completion banner
MainComplete ==
    /\ pc = "main_banner"
    /\ trace' = trace \o CompletionBanner
    /\ pc' = "done"
    /\ UNCHANGED <<file, remote, writes, nodes, revision, flow_data, resp_get,
                   resp_post, resp_status, deployRet, statusRet>>

\* the documents the remote may serve after another client has deployed over
\* doc: that client's flows under a revision that differs from doc's
WrittenDocs(doc) ==
    {[rev |-> r, flows |-> f] :
        r \in {JStr("abc"), JStr("xyz")} \ {DictGet(doc, "rev", JNull)},
        f \in WriterFlows}

\* another client of the remote service replaces its flow document
ExternalWrite ==
    /\ pc \notin {"done", "crashed"}
    /\ writes < MaxWrites
    /\ \E doc \in WrittenDocs(remote) : remote' = doc
    /\ writes' = writes + 1
    /\ UNCHANGED <<pc, file, nodes, revision, flow_data, resp_get, resp_post,
                   resp_status, trace, deployRet, statusRet>>

Next ==
    \/ MainStart
    \/ DeployReadFile
    \/ DeployGet
    \/ DeployPost
    \/ MainWait
    \/ MainFailed
    \/ MainSleep
    \/ GetFlowStatus
    \/ MainComplete
    \/ ExternalWrite

Spec == Init /\ [][Next]_vars

SpecStatus == InitStatus /\ [][Next]_vars

-----------------------------------------------------------------------------
(* Observations on the trace *)

IsReq(x) == x.e \in {"GET", "POST"}

Reqs == SelectSeq(trace, IsReq)

ReqsBy(f) == SelectSeq(Reqs, LAMBDA x : x.by = f)

Posts == SelectSeq(trace, LAMBDA x : x.e = "POST")

Last(q) == q[Len(q)]

After(i) == SubSeq(trace, i + 1, Len(trace))

StatusGet == GetEvent("get_flow_status")

StatusIdx == CHOOSE i \in 1..Len(trace) : trace[i] = StatusGet

Http(r) == r.k = "http"

Is200Json(r) == Http(r) /\ r.status = 200 /\ r.parsable

Non200(r) == Http(r) /\ r.status # 200

NonEmptyStr(x) == x.t = "str" /\ x.v # ""

HasTokenRev(r) ==
    Is200Json(r) /\ "rev" \in DOMAIN r.data /\ NonEmptyStr(r.data["rev"])

FailureBanner == PrintLine("Failed to deploy flow.")

-----------------------------------------------------------------------------
(* Claims *)

\* C1: a GET answering 200 with a non-empty rev r and a POST answering 200 make
\* deploy return true, having issued one POST whose body is exactly
\* {flows: the file's descriptors in order, rev: r}.
C1_DeployTagsRevision ==
    (HasTokenRev(resp_get) /\ Http(resp_post) /\ resp_post.status = 200)
    => /\ deployRet = "True"
       /\ Len(Posts) = 1
       /\ Posts[1].body = [flows |-> file.v, rev |-> resp_get.data["rev"]]

C1_Witness ==
    /\ HasTokenRev(resp_get) /\ resp_get.data["rev"] = JStr("abc")
    /\ Http(resp_post) /\ resp_post.status = 200
    /\ deployRet = "True"
    /\ Len(file.v) = 2 /\ file.v[1] # file.v[2]

\* C2: a revision GET answering anything but 200 is not fatal: deploy goes on
\* to the POST, whose body has the key flows and no key rev, and deploy's
\* result is true exactly when the POST answers 200.
C2_Non200GetIsSoft ==
    Non200(resp_get)
    => \/ /\ pc = "deploy_post"
          /\ deployRet = "none"
          /\ DOMAIN flow_data = {"flows"}
       \/ /\ pc # "deploy_post"
          /\ Len(Posts) = 1
          /\ Posts[1].body = [flows |-> file.v]
          /\ deployRet = IF Http(resp_post) /\ resp_post.status = 200
                         THEN "True" ELSE "False"

C2_Witness ==
    /\ Non200(resp_get) /\ resp_get.parsable /\ "rev" \in DOMAIN resp_get.data
    /\ NonEmptyStr(resp_get.data["rev"])
    /\ Len(Posts) = 1
    /\ deployRet = "True"

\* C3: a POST answering anything but 200 makes deploy return false, with no
\* exception reaching the caller and no HTTP request after that POST.
C3_Non200PostFails ==
    Non200(resp_post)
    => /\ deployRet = "False"
       /\ pc \in {"main_if", "done"}
       /\ Len(Reqs) = 2
       /\ Last(Reqs).e = "POST"
       /\ statusRet = "none"

C3_Witness ==
    /\ Http(resp_post) /\ resp_post.status = 500
    /\ pc = "done"
    /\ deployRet = "False"

\* C4: a missing, unreadable or malformed flow file makes deploy return false
\* without raising and without any HTTP request, and the orchestration then
\* prints the failure banner.
C4_FileErrorAbsorbed ==
    (~CanLoad(file) /\ pc \notin {"main_start", "deploy_open"})
    => /\ deployRet = "False"
       /\ pc # "crashed"
       /\ Len(Reqs) = 0
       /\ (pc = "done" => Last(trace) = FailureBanner)

\* what C5 says one descriptor prints
ClaimedLine(node) ==
    IF "type" \in DOMAIN node /\ node["type"] = "tab"
    THEN <<"Flow tab: " \o DictGet(node, "label", "Unnamed")>>
    ELSE IF "name" \in DOMAIN node
    THEN <<"Node: " \o node["name"] \o " (Type: "
              \o DictGet(node, "type", "None") \o ")">>
    ELSE <<>>

RECURSIVE ClaimedLines(_)
ClaimedLines(flows) ==
    IF Len(flows) = 0 THEN <<>>
    ELSE ClaimedLine(Head(flows)) \o ClaimedLines(Tail(flows))

\* C5: whenever the GET of get_flow_status answers 200, get_flow_status returns
\* true and prints the count, then per descriptor in order its tab line, its
\* node line or nothing, for every descriptor shape.
C5_StatusPrintsEveryDescriptor ==
    Is200Json(resp_status)
    => /\ statusRet = "True"
       /\ LET flows == DictGet(resp_status.data, "flows", <<>>)
              said == ToPrints(<<"Number of nodes: " \o IntStr(Len(flows))>>
                               \o ClaimedLines(flows))
          IN  After(StatusIdx) \in {said, said \o CompletionBanner}

\* C6: a GET of get_flow_status answering anything but 200 makes it return
\* false, print the status code and nothing else, and issue no other request.
C6_StatusNon200Fails ==
    Non200(resp_status)
    => /\ statusRet = "False"
       /\ LET said == <<PrintLine("Failed to get flows: "
                                  \o IntStr(resp_status.status))>>
          IN  After(StatusIdx) \in {said, said \o CompletionBanner}
       /\ Len(ReqsBy("get_flow_status")) = 1
       /\ Last(Reqs) = StatusGet

C6_Witness ==
    /\ Http(resp_status) /\ resp_status.status = 404
    /\ resp_status.parsable
    /\ Len(DictGet(resp_status.data, "flows", <<>>)) = 2
    /\ statusRet = "False"
    /\ pc = "done"

\* C7: get_flow_status runs once if deploy returned true and never if it
\* returned false; its GET comes after deploy's POST and after the delay; the
\* completion banner follows it whatever it returned; after a failed deploy
\* only the failure banner follows.
C7_Orchestration ==
    LET n == Len(ReqsBy("get_flow_status"))
        banner == {CompletionBanner[i] : i \in 1..Len(CompletionBanner)}
        said(S) == {i \in 1..Len(trace) : trace[i] \in S}
    IN  /\ n <= 1
        /\ n = 1 =>
             /\ deployRet = "True"
             /\ \E i, j \in 1..Len(trace) :
                   /\ i < j /\ j < StatusIdx
                   /\ trace[i].e = "POST"
                   /\ trace[j] = SleepEvent
        /\ deployRet = "False" =>
             /\ n = 0
             /\ statusRet = "none"
             /\ said(banner \cup {SleepEvent}) = {}
        /\ pc = "done" => deployRet \in {"True", "False"}
        /\ (pc = "done" /\ deployRet = "True") =>
             /\ n = 1
             /\ statusRet \in {"True", "False"}
             /\ After(Len(trace) - 3) = CompletionBanner
             /\ \A i \in said(banner \cup {FailureBanner}) : i > StatusIdx
        /\ (pc = "done" /\ deployRet = "False") =>
             said({FailureBanner}) = {Len(trace)}

C7_Witness ==
    /\ pc = "done"
    /\ deployRet = "True"
    /\ statusRet = "False"
    /\ After(Len(trace) - 3) = CompletionBanner

\* C8: a network failure of any request is absorbed by the operation that
\* issued it: deploy returns false, without a POST if its GET failed, and
\* get_flow_status returns false; no exception reaches the orchestration.
C8_NetworkErrorAbsorbed ==
    /\ resp_get = NetErr => (deployRet = "False" /\ Len(Posts) = 0)
    /\ resp_post = NetErr => deployRet = "False"
    /\ resp_status = NetErr => statusRet = "False"
    /\ NetErr \in {resp_get, resp_post, resp_status} =>
          /\ pc # "crashed"
          /\ "raised" \notin {deployRet, statusRet}

C8_Witness ==
    /\ resp_get = NetErr
    /\ pc = "done"
    /\ deployRet = "False"
    /\ Len(Reqs) = 1

PayloadBuilt == "flows" \in DOMAIN flow_data

\* C9 as claimed: the payload has the key rev exactly when the revision GET
\* answered 200 with a rev field, whatever its value, and carries that value.
C9_RevSentIffPresent ==
    PayloadBuilt
    => /\ ("rev" \in DOMAIN flow_data) <=>
             (Is200Json(resp_get) /\ "rev" \in DOMAIN resp_get.data)
       /\ "rev" \in DOMAIN flow_data => flow_data["rev"] = resp_get.data["rev"]
       /\ \A i \in 1..Len(Posts) : Posts[i].body = flow_data

\* C9 as amended: the payload has the key rev exactly when the revision GET
\* answered 200 with a rev field holding a non-empty string, and carries that
\* value; a null or empty rev is sent as no rev at all.
C9_RevSentIffNonEmpty ==
    PayloadBuilt
    => /\ ("rev" \in DOMAIN flow_data) <=> HasTokenRev(resp_get)
       /\ "rev" \in DOMAIN flow_data => flow_data["rev"] = resp_get.data["rev"]
       /\ \A i \in 1..Len(Posts) : Posts[i].body = flow_data

C9_Witness ==
    /\ Is200Json(resp_get)
    /\ "rev" \in DOMAIN resp_get.data
    /\ resp_get.data["rev"] = JStr("")
    /\ Len(Posts) = 1
    /\ DOMAIN Posts[1].body = {"flows"}

\* the POST carried a revision that was not the remote's when it arrived
Stale(p) ==
    /\ "rev" \in DOMAIN p.body
    /\ (~p.at_has_rev \/ p.body["rev"] # p.at_rev)

\* C10: with an external writer, deploy issues one GET then at most one POST,
\* never fetches the revision again, and returns true exactly when that POST
\* answers 200, also when the revision it sent is no longer the remote's.
C10_StaleRevisionUnhandled ==
    LET mine == ReqsBy("deploy_flow") IN
    /\ Len(mine) <= 2
    /\ Len(mine) >= 1 => mine[1].e = "GET"
    /\ Len(mine) = 2 => mine[2].e = "POST"
    /\ (deployRet = "True") <=> (Http(resp_post) /\ resp_post.status = 200)
    /\ resp_post # NoResponse => (Len(mine) = 2 /\ deployRet \in {"True", "False"})

C10_Witness ==
    /\ writes > 0
    /\ Len(Posts) = 1
    /\ Stale(Posts[1])
    /\ Posts[1].body["rev"] = resp_get.data["rev"]
    /\ deployRet = "True"

====
